---- MODULE Spec2Model ----
(***************************************************************************)
(* Model of the personal-assistant backend's turn processor: the HTTP      *)
(* entry point chat_endpoint of main.py with its helpers                   *)
(* (get_relevant_memories, web_search, get_interaction_summary,            *)
(* save_memory), the tool-call detector and the memory curator; the        *)
(* profile endpoints get_profile and update_profile of main.py; and the    *)
(* chat loop of the single-process variant, AssistantBackend.py.           *)
(*                                                                         *)
(* Texts are sequences of tokens; every token stands for a fixed piece of  *)
(* text, and a token sequence stands for the concatenation of its tokens.  *)
(* The regular-expression search, the JSON parse, lower() and strip() are  *)
(* computed on these sequences.                                            *)
(***************************************************************************)
EXTENDS Integers, Sequences, FiniteSets, TLC

\* Records are written with their fields in one fixed order throughout.

VARIABLES
    collection,   \* the vector store "memory": a set of records [id, document]
    clock,        \* datetime.datetime.now(), in ticks
    asked,        \* confirmations carried by the responses before the last request
    request,      \* the last ChatRequest received
    response,     \* the response to it
    trace,        \* what the handler of the last request called
    profileFile,     \* the content of user_profile.json
    profileRequest,  \* the last request to /api/profile
    profileReply,    \* the reply to it
    cli              \* the single-process variant, AssistantBackend.py

chatVars == <<collection, clock, asked, request, response, trace>>
profileVars == <<profileFile, profileRequest, profileReply>>
vars == <<chatVars, profileVars, cli>>

----------------------------------------------------------------------------
(* Bounds of the model. *)

MaxTextLen == 5      \* longest completion text, in tokens (text specification)
MaxSummaryLen == 2   \* longest summary text, in tokens (text specification)
MaxHist == 2         \* longest submitted history, in messages
MaxClock == 1        \* last clock tick
MaxNameLen == 2      \* longest profile name, in characters
MaxTurns == 2        \* turns of the single-process variant
MaxRounds == 2       \* tool calls the model makes within one turn

----------------------------------------------------------------------------
(* Tokens and texts. *)

LBrace == "{"
RBrace == "}"
Comma == ","
PairToolWebSearch == "\"tool_name\": \"web_search\""
PairToolOther == "\"tool_name\": \"calculator\""
PairQueryX == "\"query\": \"X\""
Word == "hello"

CompletionAlphabet ==
    {LBrace, RBrace, Comma, PairToolWebSearch, PairToolOther, PairQueryX, Word}

PairTokens == {PairToolWebSearch, PairToolOther, PairQueryX}

PhraseHeadLower == "no new key "
PhraseHeadCapital == "No new key "
PhraseTailLower == "information"
PhraseTailUpper == "INFORMATION"
Blank == " "
Fact == "user likes tea."

SummaryAlphabet ==
    {PhraseHeadLower, PhraseHeadCapital, PhraseTailLower, PhraseTailUpper, Blank, Fact}

\* Python's None where a text is expected, and a call that raised.
None == <<"None">>
Raised == <<"raised">>
NotCalled == <<"not called">>

SeqsUpTo(S, n) == UNION {[1..k -> S] : k \in 0..n}

\* a in b, for Python strings
Contains(b, a) ==
    \E i \in 0..(Len(b) - Len(a)) :
        \A k \in 1..Len(a) : b[i + k] = a[k]

\* "\n".join(parts)
RECURSIVE JoinLines(_)
JoinLines(parts) ==
    IF parts = <<>> THEN <<>>
    ELSE IF Len(parts) = 1 THEN parts[1]
    ELSE parts[1] \o <<"\n">> \o JoinLines(Tail(parts))

----------------------------------------------------------------------------
(* The tool-call detector: re.search(r'\{.*\}', text, re.DOTALL), json.loads *)
(* and the tool_name test.                                                   *)

NoMatch == <<>>

Positions(text, tok) == {i \in 1..Len(text) : text[i] = tok}

Min(S) == CHOOSE x \in S : \A y \in S : x <= y
Max(S) == CHOOSE x \in S : \A y \in S : x >= y

\* The leftmost match of \{.*\}: it starts at the first "{" and, .* being
\* greedy and matching newlines, ends at the last "}" after it.
ReSearch(text) ==
    LET opens == Positions(text, LBrace)
        closes == Positions(text, RBrace)
    IN IF opens = {} \/ closes = {} THEN NoMatch
       ELSE IF Max(closes) < Min(opens) THEN NoMatch
       ELSE SubSeq(text, Min(opens), Max(closes))

PairKey(tok) == IF tok = PairQueryX THEN "query" ELSE "tool_name"

PairVal(tok) ==
    IF tok = PairToolWebSearch THEN "web_search"
    ELSE IF tok = PairToolOther THEN "calculator"
    ELSE "X"

\* dict.get(key) on the members of a parsed object: a repeated key keeps its
\* last value, a missing key gives None ("" stands for it here).
DictGet(members, key) ==
    LET at == {i \in 1..Len(members) :
                  members[i] \in PairTokens /\ PairKey(members[i]) = key}
    IN IF at = {} THEN "" ELSE PairVal(members[Max(at)])

\* json.loads of a text that starts with "{" and ends with "}": an object is
\* "{" "}" or "{" pair ("," pair)* "}"; anything else raises JSONDecodeError.
JsonLoads(text) ==
    LET members == SubSeq(text, 2, Len(text) - 1)
        wellFormed ==
            \/ members = <<>>
            \/ /\ Len(members) % 2 = 1
               /\ \A i \in 1..Len(members) :
                     IF i % 2 = 1 THEN members[i] \in PairTokens
                     ELSE members[i] = Comma
    IN IF wellFormed
       THEN [query |-> DictGet(members, "query"),
             tool_name |-> DictGet(members, "tool_name"),
             ok |-> TRUE]
       ELSE [query |-> "", tool_name |-> "", ok |-> FALSE]

\* The text of a parsed value, None for a missing one.
ValueText(v) == IF v = "" THEN None ELSE <<v>>

NullConfirmation == [text |-> <<>>, type |-> "null"]
AbsentConfirmation == [text |-> <<>>, type |-> "absent"]
SearchConfirmation(query) == [text |-> query, type |-> "search"]

DetectQueryDropped(response_text, webSearchEnabled) ==
    IF ~webSearchEnabled THEN NullConfirmation
    ELSE LET tool_call_match == ReSearch(response_text)
         IN IF tool_call_match = NoMatch THEN NullConfirmation
            ELSE LET tool_call_obj == JsonLoads(tool_call_match)
                 IN IF tool_call_obj.ok /\ tool_call_obj.tool_name = "web_search"
                    THEN SearchConfirmation(None)
                    ELSE NullConfirmation

DetectBySubstring(response_text, webSearchEnabled) ==
    IF ~webSearchEnabled THEN NullConfirmation
    ELSE IF Contains(response_text, <<PairToolWebSearch>>)
    THEN SearchConfirmation(
            IF Contains(response_text, <<PairQueryX>>) THEN <<"X">> ELSE None)
    ELSE NullConfirmation

DetectAnyTool(response_text, webSearchEnabled) ==
    IF ~webSearchEnabled THEN NullConfirmation
    ELSE LET tool_call_match == ReSearch(response_text)
         IN IF tool_call_match = NoMatch THEN NullConfirmation
            ELSE LET tool_call_obj == JsonLoads(tool_call_match)
                 IN IF tool_call_obj.ok /\ tool_call_obj.tool_name # ""
                    THEN SearchConfirmation(ValueText(tool_call_obj.query))
                    ELSE NullConfirmation

DetectIgnoringSetting(response_text, webSearchEnabled) ==
    LET tool_call_match == ReSearch(response_text)
    IN IF tool_call_match = NoMatch THEN NullConfirmation
       ELSE LET tool_call_obj == JsonLoads(tool_call_match)
            IN IF tool_call_obj.ok /\ tool_call_obj.tool_name = "web_search"
               THEN SearchConfirmation(ValueText(tool_call_obj.query))
               ELSE NullConfirmation

\* main.py lines 190-197: confirmation after the tool-call detection.
DetectToolCall(response_text, webSearchEnabled) ==
    IF ~webSearchEnabled THEN NullConfirmation
    ELSE LET tool_call_match == ReSearch(response_text)
         IN IF tool_call_match = NoMatch THEN NullConfirmation
            ELSE LET tool_call_obj == JsonLoads(tool_call_match)
                 IN IF tool_call_obj.ok /\ tool_call_obj.tool_name = "web_search"
                    THEN SearchConfirmation(ValueText(tool_call_obj.query))
                    ELSE NullConfirmation

----------------------------------------------------------------------------
(* The memory curator's tests on a summary. *)

LowerToken(tok) ==
    IF tok = PhraseHeadCapital THEN PhraseHeadLower
    ELSE IF tok = PhraseTailUpper THEN PhraseTailLower
    ELSE tok

\* str.lower()
Lower(text) == [i \in 1..Len(text) |-> LowerToken(text[i])]

\* The literal "no new key information"
NoNewKeyInformation == <<PhraseHeadLower, PhraseTailLower>>

\* str.strip(): leading and trailing whitespace removed
RECURSIVE Strip(_)
Strip(text) ==
    IF text = <<>> THEN <<>>
    ELSE IF Head(text) = Blank THEN Strip(Tail(text))
    ELSE IF text[Len(text)] = Blank THEN Strip(SubSeq(text, 1, Len(text) - 1))
    ELSE text

\* Truth value of an optional string
Truthy(text) == text # None /\ text # <<>>

MemoryConfirmationCaseSensitive(summary) ==
    IF Truthy(summary) /\ ~Contains(summary, NoNewKeyInformation)
    THEN [text |-> summary, type |-> "memory"]
    ELSE NullConfirmation

\* main.py line 201
MemoryConfirmation(summary) ==
    IF Truthy(summary) /\ ~Contains(Lower(summary), NoNewKeyInformation)
    THEN [text |-> summary, type |-> "memory"]
    ELSE NullConfirmation

TrivialCaseSensitive(interaction_summary) ==
    \/ Strip(interaction_summary) = <<>>
    \/ Contains(interaction_summary, NoNewKeyInformation)

\* main.py line 153: the summaries save_memory drops
Trivial(interaction_summary) ==
    \/ Strip(interaction_summary) = <<>>
    \/ Contains(Lower(interaction_summary), NoNewKeyInformation)

----------------------------------------------------------------------------
(* Messages, settings, continuations. *)

Message(role, content) == [role |-> role, content |-> content]

PersonaText == "You are a powerful and intelligent assistant."
ApologyText == "Sorry, I encountered an error."
DenialText ==
    "The user has denied the web search. Please answer the previous question using only your existing knowledge."
ResultsIntro == "Here are the search results:\n\n"
ResultsOutro == "\n\nPlease use these results to answer my original question."

\* SettingsModel: provider 'brave', webSearchEnabled True by default
Providers == {"brave", "ddgs", "bing"}
Settings(provider, webSearchEnabled) ==
    [webSearchEnabled |-> webSearchEnabled, provider |-> provider]

\* ChatRequest.continuation; action "" stands for a missing continuation
Continuation(action, query, summary) ==
    [query |-> query, summary |-> summary, action |-> action]
NoContinuation == Continuation("", None, None)

\* The i-th message of the conversation a client holds: the system message,
\* then user and assistant messages in turn.
ClientMessage(i) ==
    IF i = 1 THEN Message("system", <<PersonaText>>)
    ELSE IF i % 2 = 0 THEN Message("user", <<Word>>)
    ELSE Message("assistant", <<Word, Word>>)

\* The histories a request may carry (ChatRequest.history): the empty list
\* and the client's conversation of MaxHist messages
Histories == {[i \in 1..n |-> ClientMessage(i)] : n \in {0, MaxHist}}

\* A client that answers a confirmation sends back the history it was given
ContinuationHistories == Histories \ {<<>>}

\* What the language model may answer in the specification of the whole server
ToolCallX == <<LBrace, PairToolWebSearch, Comma, PairQueryX, RBrace>>
Completions == {<<Word>>, ToolCallX}
Summaries == {<<Fact>>, <<PhraseHeadCapital, PhraseTailLower>>}

\* What a client may send as the query and the summary of a continuation
ClientQueries == {<<"X">>, None}
ClientSummaries == {<<Fact>>, <<PhraseHeadCapital, PhraseTailLower>>, None}

----------------------------------------------------------------------------
(* Helper functions of main.py. *)

TopK == 3

Documents(store) == {r.document : r \in store}

\* collection.query(n_results=top_k): the nearest documents, nearest first. The
\* embedding decides the order; any order of min(top_k, count) records is possible.
Rankings(store) ==
    LET n == IF Cardinality(store) < TopK THEN Cardinality(store) ELSE TopK
    IN {rk \in [1..n -> store] : \A i, j \in 1..n : i # j => rk[i] # rk[j]}

MemoryBlockAlways(store, ranking) ==
    <<"--- PAST MEMORIES ---\n">>
        \o JoinLines([i \in 1..Len(ranking) |-> ranking[i].document])
        \o <<"\n--- END MEMORIES ---">>

\* get_relevant_memories, main.py lines 123-128, with the store available
GetRelevantMemories(store, ranking) ==
    IF Cardinality(store) = 0 THEN <<>>
    ELSE IF ranking = <<>> THEN <<>>
    ELSE <<"--- PAST MEMORIES ---\n">>
            \o JoinLines([i \in 1..Len(ranking) |-> ranking[i].document])
            \o <<"\n--- END MEMORIES ---">>

\* The calls get_relevant_memories makes after collection.count(): none when
\* the store is empty (line 124), else one encode and one query (lines 125-126)
RetrievalCalls(store) ==
    IF Cardinality(store) = 0 THEN [encoded |-> 0, queried |-> FALSE]
    ELSE [encoded |-> 1, queried |-> TRUE]

\* web_search, main.py lines 130-145. outcome is what the provider did:
\* "hits", "empty" or "error". The requests of the specification draw "hits"
\* and "error"; "empty" differs from them in the text returned only.
SearchOutcomes(query, provider) ==
    IF provider \notin {"brave", "ddgs"} THEN {"unused"}
    ELSE IF query = None THEN {"error"}
    ELSE {"hits", "error"}

WebSearch(query, provider, outcome) ==
    IF provider = "brave" THEN
        IF outcome = "hits" THEN <<"snippet about ">> \o query
        ELSE IF outcome = "empty" THEN <<"No results found.">>
        ELSE <<"Brave Search failed: ", "error">>
    ELSE IF provider = "ddgs" THEN
        IF outcome = "hits" THEN <<"snippet about ">> \o query
        ELSE IF outcome = "empty" THEN <<"No results found.">>
        ELSE <<"DDGS search failed: ", "error">>
    ELSE <<"Invalid search provider specified.">>

\* Characters of the strings of a profile
CharPlain == "a"
CharQuote == "\""
CharBackslash == "\\"
CharWide == "U+65E5"    \* a character the code page cp1252 cannot encode
ProfileAlphabet == {CharPlain, CharQuote, CharBackslash, CharWide}

LBracket == "["
RBracket == "]"
KeyName == "\"name\":"
KeyFacts == "\"key_facts\":"
KeyGoals == "\"main_goals\":"

\* ProfileRequest, main.py lines 117-120: name is a string, key_facts and
\* main_goals are lists of strings; a string is a sequence of characters
Profile(name, key_facts, main_goals) ==
    [name |-> name, key_facts |-> key_facts, main_goals |-> main_goals]

\* A profile dictionary without any key
NoProfile == Profile(None, None, None)

\* init_db, main.py lines 100-103
DefaultProfile ==
    Profile(<<"User">>, <<<<"I am the user of this AI assistant.">>>>,
            <<<<"To use this assistant to learn and be more productive.">>>>)

\* The JSON text of a string: quotes around it, a backslash before every
\* quote and backslash in it
RECURSIVE Escape(_)
Escape(s) ==
    IF s = <<>> THEN <<>>
    ELSE (IF Head(s) \in {CharQuote, CharBackslash}
          THEN <<CharBackslash, Head(s)>> ELSE <<Head(s)>>) \o Escape(Tail(s))

JsonStringRaw(s) == <<CharQuote>> \o s \o <<CharQuote>>

JsonString(s) == <<CharQuote>> \o Escape(s) \o <<CharQuote>>

RECURSIVE JsonItems(_)
JsonItems(items) ==
    IF items = <<>> THEN <<>>
    ELSE IF Len(items) = 1 THEN JsonString(items[1])
    ELSE JsonString(items[1]) \o <<Comma>> \o JsonItems(Tail(items))

JsonArray(items) == <<LBracket>> \o JsonItems(items) \o <<RBracket>>

\* request.model_dump_json(indent=4), main.py line 239 (json.dumps(...,
\* indent=4) at line 100 gives the same text for the default profile). The
\* white space of the indentation is left out; json.loads skips it.
ModelDumpJson(profile) ==
    <<LBrace, KeyName>> \o JsonString(profile.name)
        \o <<Comma, KeyFacts>> \o JsonArray(profile.key_facts)
        \o <<Comma, KeyGoals>> \o JsonArray(profile.main_goals)
        \o <<RBrace>>

\* json.loads on a string whose opening quote stands before position i: its
\* characters, and the position after its closing quote (0: no valid string)
RECURSIVE ReadString(_, _, _)
ReadString(text, i, acc) ==
    IF i > Len(text) THEN [value |-> acc, next |-> 0]
    ELSE IF text[i] = CharQuote THEN [value |-> acc, next |-> i + 1]
    ELSE IF text[i] = CharBackslash
    THEN IF i + 1 <= Len(text) /\ text[i + 1] \in {CharQuote, CharBackslash}
         THEN ReadString(text, i + 2, Append(acc, text[i + 1]))
         ELSE [value |-> acc, next |-> 0]
    ELSE IF text[i] \in {LBrace, RBrace, LBracket, RBracket, Comma,
                         KeyName, KeyFacts, KeyGoals}
    THEN [value |-> acc, next |-> 0]
    ELSE ReadString(text, i + 1, Append(acc, text[i]))

\* json.loads on an array of strings whose opening bracket stands before
\* position i; wanted tells whether an item may come next
RECURSIVE ReadArray(_, _, _, _)
ReadArray(text, i, acc, wanted) ==
    IF i > Len(text) THEN [value |-> acc, next |-> 0]
    ELSE IF text[i] = RBracket /\ (acc = <<>> \/ ~wanted)
    THEN [value |-> acc, next |-> i + 1]
    ELSE IF text[i] = Comma /\ ~wanted THEN ReadArray(text, i + 1, acc, TRUE)
    ELSE IF text[i] = CharQuote /\ wanted
    THEN LET item == ReadString(text, i + 1, <<>>)
         IN IF item.next = 0 THEN [value |-> acc, next |-> 0]
            ELSE ReadArray(text, item.next, Append(acc, item.value), FALSE)
    ELSE [value |-> acc, next |-> 0]

\* json.loads on the members of an object whose opening brace stands before
\* position i: the dictionary read, and whether the text is a JSON object
RECURSIVE ReadMembers(_, _, _, _)
ReadMembers(text, i, acc, wanted) ==
    IF i > Len(text) THEN [ok |-> FALSE, value |-> acc]
    ELSE IF text[i] = RBrace /\ (acc = NoProfile \/ ~wanted)
    THEN [ok |-> i = Len(text), value |-> acc]
    ELSE IF text[i] = Comma /\ ~wanted THEN ReadMembers(text, i + 1, acc, TRUE)
    ELSE IF text[i] = KeyName /\ wanted /\ i < Len(text) /\ text[i + 1] = CharQuote
    THEN LET member == ReadString(text, i + 2, <<>>)
         IN IF member.next = 0 THEN [ok |-> FALSE, value |-> acc]
            ELSE ReadMembers(text, member.next,
                             [acc EXCEPT !.name = member.value], FALSE)
    ELSE IF text[i] \in {KeyFacts, KeyGoals} /\ wanted
            /\ i < Len(text) /\ text[i + 1] = LBracket
    THEN LET member == ReadArray(text, i + 2, <<>>, TRUE)
         IN IF member.next = 0 THEN [ok |-> FALSE, value |-> acc]
            ELSE ReadMembers(text, member.next,
                             IF text[i] = KeyFacts
                             THEN [acc EXCEPT !.key_facts = member.value]
                             ELSE [acc EXCEPT !.main_goals = member.value],
                             FALSE)
    ELSE [ok |-> FALSE, value |-> acc]

\* json.loads(Path(PROFILE_FILE).read_text()), main.py lines 179 and 237
JsonLoadsProfile(text) ==
    IF text # <<>> /\ text[1] = LBrace
    THEN ReadMembers(text, 2, NoProfile, TRUE)
    ELSE [ok |-> FALSE, value |-> NoProfile]

\* Path.write_text and read_text use the encoding of the locale: UTF-8, or a
\* code page such as cp1252 that cannot encode every character
Encodings == {"utf-8", "cp1252"}
Encodable(text, encoding) ==
    encoding = "utf-8" \/ \A i \in 1..Len(text) : text[i] # CharWide

\* separator.join(parts)
RECURSIVE Join(_, _)
Join(separator, parts) ==
    IF parts = <<>> THEN <<>>
    ELSE IF Len(parts) = 1 THEN parts[1]
    ELSE parts[1] \o <<separator>> \o Join(separator, Tail(parts))

\* main.py line 180
ProfileStr(profile_data) ==
    <<"--- CORE MEMORY: USER PROFILE ---\nName: ">> \o profile_data.name
        \o <<"\nKey Facts: ">> \o Join("; ", profile_data.key_facts)
        \o <<"\nGoals: ">> \o Join("; ", profile_data.main_goals)
        \o <<"\n--- END USER PROFILE ---">>

\* main.py line 181
TimeContext(now) == <<"Current date and time: ", ToString(now), ".">>

\* main.py line 183: the content written into slot 0
AssembledContext(profile_data, now, relevant_memories) ==
    <<PersonaText, "\n\n">> \o ProfileStr(profile_data) \o <<"\n\n">>
        \o TimeContext(now) \o <<"\n\n">> \o relevant_memories

ToolFeedbackWithoutResults(search_results) ==
    Message("tool", <<ResultsIntro, ResultsOutro>>)

\* main.py line 168
ToolFeedback(search_results) ==
    Message("tool", <<ResultsIntro>> \o search_results \o <<ResultsOutro>>)

DenialWithResults == Message("user", <<DenialText, "snippet about ", "X">>)

\* main.py line 170
Denial == Message("user", <<DenialText>>)

Apology == Message("assistant", <<ApologyText>>)

----------------------------------------------------------------------------
(* chat_endpoint. *)

Ok(history, confirmation) ==
    [history |-> history, confirmation |-> confirmation, status |-> "ok"]

\* An exception that leaves the handler: the framework answers 500
Fault == [history |-> <<>>, confirmation |-> AbsentConfirmation, status |-> "fault"]

\* What one request did to the services around the handler. encoded counts the
\* calls of embedding_model.encode and queried tells whether collection.query
\* was called.
NoTrace ==
    [summary |-> NotCalled, store |-> "unused", encoded |-> 0, queried |-> FALSE,
     searches |-> <<>>, completion |-> NotCalled, added |-> {}]

CallModelPropagates(history, settings, completion, summary) ==
    IF completion = Raised
    THEN [response |-> Fault, summary |-> NotCalled, completion |-> Raised]
    ELSE LET answered == Append(history, Message("assistant", completion))
             confirmation == DetectToolCall(completion, settings.webSearchEnabled)
         IN IF confirmation # NullConfirmation
            THEN [response |-> Ok(answered, confirmation),
                  summary |-> NotCalled, completion |-> completion]
            ELSE IF summary = Raised
            THEN [response |-> Ok(Append(answered, Apology), AbsentConfirmation),
                  summary |-> Raised, completion |-> completion]
            ELSE [response |-> Ok(answered, MemoryConfirmation(summary)),
                  summary |-> summary, completion |-> completion]

\* main.py lines 185-206: the completion, the detector, the curator and the
\* handler of every exception raised among them. completion and summary are
\* what the two calls to the language model give: a text, or Raised.
CallModel(history, settings, completion, summary) ==
    IF completion = Raised
    THEN [response |-> Ok(Append(history, Apology), AbsentConfirmation),
          summary |-> NotCalled, completion |-> Raised]
    ELSE LET answered == Append(history, Message("assistant", completion))
             confirmation == DetectToolCall(completion, settings.webSearchEnabled)
         IN IF confirmation # NullConfirmation
            THEN [response |-> Ok(answered, confirmation),
                  summary |-> NotCalled, completion |-> completion]
            ELSE IF summary = Raised
            THEN [response |-> Ok(Append(answered, Apology), AbsentConfirmation),
                  summary |-> Raised, completion |-> completion]
            ELSE [response |-> Ok(answered, MemoryConfirmation(summary)),
                  summary |-> summary, completion |-> completion]

\* The confirmations a response asks the user for
Emitted(resp) ==
    IF resp.confirmation.type \in {"search", "memory"} THEN {resp.confirmation} ELSE {}

Received(req) ==
    /\ request' = req
    /\ asked' = asked \cup Emitted(response)

FreshTurnSpeculates(history, settings, loaded, storeUp, ranking, completion, summary) ==
    /\ Received([history |-> history, settings |-> settings,
                 continuation |-> NoContinuation])
    /\ UNCHANGED <<collection, clock, profileVars, cli>>
    /\ IF history = <<>> \/ ~loaded.ok \/ ~storeUp
       THEN /\ response' = Fault
            /\ trace' = NoTrace
       ELSE LET assembled ==
                    [history EXCEPT ![1].content =
                        AssembledContext(loaded.value, clock,
                                         GetRelevantMemories(collection, ranking))]
                r == CallModel(assembled, settings, completion, summary)
                found == r.response.confirmation
            IN /\ response' = r.response
               /\ trace' = [NoTrace EXCEPT
                               !.store = "up",
                               !.completion = r.completion,
                               !.summary = r.summary,
                               !.searches =
                                   IF found.type = "search"
                                   THEN <<[query |-> found.text,
                                           provider |-> settings.provider,
                                           results |-> WebSearch(found.text,
                                                          settings.provider, "hits")]>>
                                   ELSE <<>>]

\* A request without continuation: the context assembler, then the model.
\* loaded is what json.loads gives on the profile file.
FreshTurn(history, settings, loaded, storeUp, ranking, completion, summary) ==
    /\ Received([history |-> history, settings |-> settings,
                 continuation |-> NoContinuation])
    /\ UNCHANGED <<collection, clock, profileVars, cli>>
    /\ IF history = <<>>
       THEN \* history[-1] raises IndexError
            /\ response' = Fault
            /\ trace' = NoTrace
       ELSE IF ~loaded.ok
       THEN \* json.loads raises on the profile file
            /\ response' = Fault
            /\ trace' = NoTrace
       ELSE IF ~storeUp
       THEN \* collection.count() or collection.query() raises
            /\ response' = Fault
            /\ trace' = [NoTrace EXCEPT !.store = "down"]
       ELSE LET profile_data == loaded.value
                relevant_memories == GetRelevantMemories(collection, ranking)
                assembled ==
                    [history EXCEPT ![1].content =
                        AssembledContext(profile_data, clock, relevant_memories)]
                r == CallModel(assembled, settings, completion, summary)
            IN /\ response' = r.response
               /\ trace' = [NoTrace EXCEPT
                               !.store = "up",
                               !.completion = r.completion,
                               !.summary = r.summary,
                               !.encoded = RetrievalCalls(collection).encoded,
                               !.queried = RetrievalCalls(collection).queried]

\* continuation {"action": "approved_search", "query": query}
ApprovedSearch(history, settings, query, outcome, completion, summary) ==
    /\ Received([history |-> history, settings |-> settings,
                 continuation |-> Continuation("approved_search", query, None)])
    /\ UNCHANGED <<collection, clock, profileVars, cli>>
    /\ LET search_results == WebSearch(query, settings.provider, outcome)
           r == CallModel(Append(history, ToolFeedback(search_results)),
                          settings, completion, summary)
       IN /\ response' = r.response
          /\ trace' = [NoTrace EXCEPT
                          !.searches = <<[query |-> query,
                                          provider |-> settings.provider,
                                          results |-> search_results]>>,
                          !.completion = r.completion,
                          !.summary = r.summary]

\* continuation {"action": "denied_search"}
DeniedSearch(history, settings, completion, summary) ==
    /\ Received([history |-> history, settings |-> settings,
                 continuation |-> Continuation("denied_search", None, None)])
    /\ UNCHANGED <<collection, clock, profileVars, cli>>
    /\ LET r == CallModel(Append(history, Denial), settings, completion, summary)
       IN /\ response' = r.response
          /\ trace' = [NoTrace EXCEPT !.completion = r.completion,
                                      !.summary = r.summary]

\* continuation with an action the handler does not know: no branch of
\* lines 166-172 is taken and the model is called on the history as sent.
OtherContinuation(history, settings, completion, summary) ==
    /\ Received([history |-> history, settings |-> settings,
                 continuation |-> Continuation("other", None, None)])
    /\ UNCHANGED <<collection, clock, profileVars, cli>>
    /\ LET r == CallModel(history, settings, completion, summary)
       IN /\ response' = r.response
          /\ trace' = [NoTrace EXCEPT !.completion = r.completion,
                                      !.summary = r.summary]

SaveMemoryUpserts(history, settings, summary, storeUp, onDuplicate) ==
    /\ Received([history |-> history, settings |-> settings,
                 continuation |-> Continuation("save_memory", None, summary)])
    /\ UNCHANGED <<clock, profileVars, cli>>
    /\ response' = IF summary = None THEN Fault ELSE Ok(history, AbsentConfirmation)
    /\ IF summary = None \/ Trivial(summary) \/ ~storeUp
       THEN /\ trace' = NoTrace
            /\ UNCHANGED collection
       ELSE LET record == [document |-> summary, id |-> ToString(clock)]
            IN /\ collection' = {r \in collection : r.id # record.id} \cup {record}
               /\ trace' = [NoTrace EXCEPT !.store = "up", !.added = {record},
                                           !.encoded = 1]

\* continuation {"action": "save_memory", "summary": summary}: save_memory,
\* main.py lines 152-156. onDuplicate is what collection.add does with an id
\* the store already holds: "ignore" it or "raise".
SaveMemory(history, settings, summary, storeUp, onDuplicate) ==
    /\ Received([history |-> history, settings |-> settings,
                 continuation |-> Continuation("save_memory", None, summary)])
    /\ UNCHANGED <<clock, profileVars, cli>>
    /\ IF summary = None
       THEN \* None.strip() raises AttributeError
            /\ response' = Fault
            /\ trace' = NoTrace
            /\ UNCHANGED collection
       ELSE IF Trivial(summary)
       THEN /\ response' = Ok(history, AbsentConfirmation)
            /\ trace' = NoTrace
            /\ UNCHANGED collection
       ELSE IF ~storeUp
       THEN /\ response' = Fault
            /\ trace' = [NoTrace EXCEPT !.store = "down", !.encoded = 1]
            /\ UNCHANGED collection
       ELSE LET id == ToString(clock)
                record == [document |-> summary, id |-> id]
            IN IF \E r \in collection : r.id = id
               THEN /\ UNCHANGED collection
                    /\ trace' = [NoTrace EXCEPT !.store = "up", !.encoded = 1]
                    /\ response' = IF onDuplicate = "raise" THEN Fault
                                   ELSE Ok(history, AbsentConfirmation)
               ELSE /\ collection' = collection \cup {record}
                    /\ trace' = [NoTrace EXCEPT !.store = "up", !.added = {record},
                                                !.encoded = 1]
                    /\ response' = Ok(history, AbsentConfirmation)

DontSaveMemorySaves(history, settings) ==
    /\ Received([history |-> history, settings |-> settings,
                 continuation |-> Continuation("dont_save_memory", None, None)])
    /\ UNCHANGED <<clock, profileVars, cli>>
    /\ collection' = collection \cup {[document |-> <<Fact>>, id |-> ToString(clock)]}
    /\ response' = Ok(history, AbsentConfirmation)
    /\ trace' = NoTrace

\* continuation {"action": "dont_save_memory"}
DontSaveMemory(history, settings) ==
    /\ Received([history |-> history, settings |-> settings,
                 continuation |-> Continuation("dont_save_memory", None, None)])
    /\ UNCHANGED <<collection, clock, profileVars, cli>>
    /\ response' = Ok(history, AbsentConfirmation)
    /\ trace' = NoTrace

\* Time passes between two requests.
Tick ==
    /\ clock < MaxClock
    /\ clock' = clock + 1
    /\ UNCHANGED <<collection, asked, request, response, trace, profileVars, cli>>

----------------------------------------------------------------------------
(* The profile endpoints, main.py lines 236-239. *)

\* preceding is the profile of the request just before, when that request was
\* an update that succeeded, and NoProfile otherwise
ProfileRequest(method, body, preceding) ==
    [method |-> method, body |-> body, preceding |-> preceding]
ProfileReply(status, body) == [status |-> status, body |-> body]

NoProfileRequest == ProfileRequest("", NoProfile, NoProfile)
NoProfileReply == ProfileReply("none", NoProfile)
ProfileFault == ProfileReply("fault", NoProfile)

\* PUT /api/profile. encoding is the encoding of the locale: write_text
\* empties the file when it opens it and raises on a character it cannot
\* encode.
UpdateProfile(profile, encoding) ==
    /\ profileRequest' = ProfileRequest("PUT", profile, NoProfile)
    /\ IF Encodable(ModelDumpJson(profile), encoding)
       THEN /\ profileFile' = ModelDumpJson(profile)
            /\ profileReply' = ProfileReply("ok", [message |-> "Profile updated"])
       ELSE /\ profileFile' = <<>>
            /\ profileReply' = ProfileFault
    /\ UNCHANGED <<chatVars, cli>>

\* GET /api/profile
GetProfile ==
    /\ profileRequest' =
          ProfileRequest("GET", NoProfile,
                         IF profileRequest.method = "PUT" /\ profileReply.status = "ok"
                         THEN profileRequest.body ELSE NoProfile)
    /\ profileReply' =
          LET loaded == JsonLoadsProfile(profileFile)
          IN IF loaded.ok THEN ProfileReply("ok", loaded.value) ELSE ProfileFault
    /\ UNCHANGED <<chatVars, profileFile, cli>>

----------------------------------------------------------------------------
(* The single-process variant: the chat loop of AssistantBackend.py, lines  *)
(* 61-122, cut at its blocking calls (input and the language model).         *)

SystemPrompt == "You are an intelligent assistant."
CliDenialText ==
    "The user has denied the web search. Please answer the previous question using only your existing knowledge and the memories provided."

\* AssistantBackend.py line 77
ContextualSystemPrompt(now, relevant_memories) ==
    <<SystemPrompt, "\n">> \o TimeContext(now) \o <<"\n">> \o relevant_memories

\* web_search, AssistantBackend.py lines 53-57: the joined bodies of the
\* results; an exception of the provider is not caught
CliWebSearch(query, outcome) ==
    IF outcome = "hits" THEN <<"snippet about ">> \o query ELSE <<>>

\* AssistantBackend.py lines 97-98
CliToolFeedback(search_results) ==
    Message("user", <<ResultsIntro>> \o search_results \o <<ResultsOutro>>)

\* AssistantBackend.py lines 102-103
CliDenial == Message("user", <<CliDenialText>>)

KeepContextualPrompt(history, original_system_prompt) == history

\* AssistantBackend.py line 122
RestoreSystemPrompt(history, original_system_prompt) ==
    [history EXCEPT ![1].content = original_system_prompt]

\* The program at line 62, before the first input. pc is the place the
\* program is at; turns counts the turns begun, rounds the tool calls of the
\* turn, invoked the completions asked for since the user's last answer;
\* cause tells which call raised when the program has crashed.
Started ==
    [query |-> None, summary |-> None,
     history |-> <<Message("system", <<SystemPrompt>>)>>,
     original_system_prompt |-> <<SystemPrompt>>,
     pc |-> "Input", turns |-> 0, rounds |-> 0, invoked |-> 0, cause |-> ""]

\* An exception no handler catches: the program ends
Crashed(cause) == [cli EXCEPT !.pc = "Crashed", !.cause = cause]

\* The end of a turn, line 122, back to line 62
TurnDone ==
    [cli EXCEPT !.pc = "Input",
                !.history = RestoreSystemPrompt(cli.history, cli.original_system_prompt),
                !.query = None, !.summary = None]

\* Lines 62-78: the user's message, the retrieval and the context of the turn
ReadInput(user_input, storeUp, ranking) ==
    /\ cli.pc = "Input"
    /\ cli.turns < MaxTurns
    /\ UNCHANGED <<chatVars, profileVars>>
    /\ IF user_input = <<"quit">>
       THEN cli' = [cli EXCEPT !.pc = "Exited"]
       ELSE LET withUser == Append(cli.history, Message("user", user_input))
            IN IF ~storeUp
               THEN cli' = [Crashed("store") EXCEPT !.history = withUser,
                                                    !.turns = cli.turns + 1]
               ELSE cli' = [cli EXCEPT
                               !.pc = "AwaitingModel",
                               !.history =
                                   [withUser EXCEPT ![1].content =
                                       ContextualSystemPrompt(clock,
                                           GetRelevantMemories(collection, ranking))],
                               !.original_system_prompt = cli.history[1].content,
                               !.turns = cli.turns + 1,
                               !.rounds = 0,
                               !.invoked = 0]

\* Lines 82-108: the completion and the tool-call detection
Complete(completion) ==
    /\ cli.pc = "AwaitingModel"
    /\ UNCHANGED <<chatVars, profileVars>>
    /\ IF completion = Raised
       THEN cli' = Crashed("model")
       ELSE LET answered == Append(cli.history, Message("assistant", completion))
                confirmation == DetectToolCall(completion, TRUE)
            IN IF confirmation.type = "search"
               THEN cli' = [cli EXCEPT !.pc = "AwaitingUserApproval",
                                       !.history = answered,
                                       !.query = confirmation.text,
                                       !.rounds = cli.rounds + 1,
                                       !.invoked = cli.invoked + 1]
               ELSE cli' = [cli EXCEPT !.pc = "Final",
                                       !.history = answered,
                                       !.invoked = cli.invoked + 1]

\* Lines 95-99: the user allows the search (ToolExecuted)
AllowSearch(outcome) ==
    /\ cli.pc = "AwaitingUserApproval"
    /\ UNCHANGED <<chatVars, profileVars>>
    /\ IF outcome = "error"
       THEN cli' = Crashed("search")
       ELSE cli' = [cli EXCEPT
                       !.pc = "AwaitingModel",
                       !.history = Append(cli.history,
                                          CliToolFeedback(CliWebSearch(cli.query, outcome))),
                       !.invoked = 0]

\* Lines 100-104: the user refuses the search (ToolDenied)
RefuseSearch ==
    /\ cli.pc = "AwaitingUserApproval"
    /\ UNCHANGED <<chatVars, profileVars>>
    /\ cli' = [cli EXCEPT !.pc = "AwaitingModel",
                          !.history = Append(cli.history, CliDenial),
                          !.invoked = 0]

\* Lines 110-114: the final answer is printed and the curator summarizes
Summarize(summary) ==
    /\ cli.pc = "Final"
    /\ UNCHANGED <<chatVars, profileVars>>
    /\ IF summary = Raised
       THEN cli' = Crashed("summary")
       ELSE IF MemoryConfirmation(summary).type = "memory"
       THEN cli' = [cli EXCEPT !.pc = "AwaitingMemoryApproval", !.summary = summary]
       ELSE cli' = TurnDone

\* Lines 39-43 and 116-117: the user allows the save; the id of the record is
\* the summary itself
AllowMemory(storeUp, onDuplicate) ==
    /\ cli.pc = "AwaitingMemoryApproval"
    /\ UNCHANGED <<clock, asked, request, response, trace, profileVars>>
    /\ LET record == [document |-> cli.summary, id |-> cli.summary]
       IN IF Trivial(cli.summary)
          THEN cli' = TurnDone /\ UNCHANGED collection
          ELSE IF ~storeUp
          THEN cli' = Crashed("store") /\ UNCHANGED collection
          ELSE IF \E r \in collection : r.id = record.id
          THEN /\ UNCHANGED collection
               /\ cli' = IF onDuplicate = "raise" THEN Crashed("duplicate") ELSE TurnDone
          ELSE /\ collection' = collection \cup {record}
               /\ cli' = TurnDone

\* Lines 118-119: the user refuses the save
RefuseMemory ==
    /\ cli.pc = "AwaitingMemoryApproval"
    /\ UNCHANGED <<chatVars, profileVars>>
    /\ cli' = TurnDone

----------------------------------------------------------------------------
(* The server: requests arrive one after another, from any client. *)

NoRequest == [history |-> <<>>, settings |-> Settings("brave", TRUE),
              continuation |-> NoContinuation]
NoResponse == [history |-> <<>>, confirmation |-> AbsentConfirmation, status |-> "none"]

Init ==
    /\ collection = {}
    /\ clock = 0
    /\ asked = {}
    /\ request = NoRequest
    /\ response = NoResponse
    /\ trace = NoTrace
    /\ profileFile = ModelDumpJson(DefaultProfile)
    /\ profileRequest = NoProfileRequest
    /\ profileReply = NoProfileReply
    /\ cli = Started

CompletionOutcomes == Completions \cup {Raised}
SummaryOutcomes == Summaries \cup {Raised}

\* The outcomes of the calls a handler reaches; a call it does not reach has
\* the one outcome NotCalled.
LoadedProfile == {JsonLoadsProfile(profileFile)}
StoreChoices(history) == IF history = <<>> THEN {TRUE} ELSE BOOLEAN
RankingChoices(history, storeUp) ==
    IF history # <<>> /\ storeUp THEN Rankings(collection) ELSE {<<>>}
CompletionChoices(reached, completions) ==
    IF reached THEN completions \cup {Raised} ELSE {NotCalled}
SummaryChoices(settings, completion, summaries) ==
    IF completion \in {Raised, NotCalled} THEN {NotCalled}
    ELSE IF DetectToolCall(completion, settings.webSearchEnabled) # NullConfirmation
    THEN {NotCalled}
    ELSE summaries

FreshTurnRequest ==
    \E loaded \in LoadedProfile, history \in Histories, enabled \in BOOLEAN :
    \E storeUp \in StoreChoices(history) :
    \E ranking \in RankingChoices(history, storeUp),
       completion \in CompletionChoices(history # <<>> /\ storeUp, Completions) :
    \E summary \in SummaryChoices(Settings("brave", enabled), completion, SummaryOutcomes) :
        FreshTurn(history, Settings("brave", enabled), loaded, storeUp, ranking,
                  completion, summary)

ApprovedSearchRequest ==
    \E history \in ContinuationHistories, provider \in Providers, enabled \in BOOLEAN,
       query \in ClientQueries, completion \in CompletionOutcomes :
    \E outcome \in SearchOutcomes(query, provider),
       summary \in SummaryChoices(Settings(provider, enabled), completion, SummaryOutcomes) :
        ApprovedSearch(history, Settings(provider, enabled), query, outcome,
                       completion, summary)

DeniedSearchRequest ==
    \E history \in ContinuationHistories, enabled \in BOOLEAN, completion \in CompletionOutcomes :
    \E summary \in SummaryChoices(Settings("brave", enabled), completion, SummaryOutcomes) :
        DeniedSearch(history, Settings("brave", enabled), completion, summary)

OtherContinuationRequest ==
    \E history \in ContinuationHistories, enabled \in BOOLEAN, completion \in CompletionOutcomes :
    \E summary \in SummaryChoices(Settings("brave", enabled), completion, SummaryOutcomes) :
        OtherContinuation(history, Settings("brave", enabled), completion, summary)

SaveMemoryRequest ==
    \E history \in ContinuationHistories, summary \in ClientSummaries :
    \E storeUp \in (IF summary = None \/ Trivial(summary) THEN {TRUE} ELSE BOOLEAN) :
    \E onDuplicate \in (IF storeUp /\ summary # None /\ ~Trivial(summary)
                           /\ \E r \in collection : r.id = ToString(clock)
                        THEN {"ignore", "raise"} ELSE {"ignore"}) :
        SaveMemory(history, Settings("brave", TRUE), summary, storeUp, onDuplicate)

DontSaveMemoryRequest ==
    \E history \in ContinuationHistories :
        DontSaveMemory(history, Settings("brave", TRUE))

Next ==
    \/ FreshTurnRequest
    \/ ApprovedSearchRequest
    \/ DeniedSearchRequest
    \/ OtherContinuationRequest
    \/ SaveMemoryRequest
    \/ DontSaveMemoryRequest
    \/ Tick

Spec == Init /\ [][Next]_vars

----------------------------------------------------------------------------
(* The texts: one request to a freshly started server, with every completion *)
(* of up to MaxTextLen tokens and every summary of up to MaxSummaryLen       *)
(* tokens.                                                                   *)

Texts == SeqsUpTo(CompletionAlphabet, MaxTextLen)
SummaryTexts == SeqsUpTo(SummaryAlphabet, MaxSummaryLen) \cup {None, Raised}

FirstRequest == response = NoResponse

DetectorTurn ==
    /\ FirstRequest
    /\ \E loaded \in LoadedProfile, history \in ContinuationHistories,
          enabled \in BOOLEAN, completion \in Texts :
       \E summary \in SummaryChoices(Settings("brave", enabled), completion, {<<Fact>>}) :
          FreshTurn(history, Settings("brave", enabled), loaded, TRUE, <<>>,
                    completion, summary)

DetectorResumedTurn ==
    /\ FirstRequest
    /\ \E history \in ContinuationHistories, enabled \in BOOLEAN,
          completion \in Texts :
       \E summary \in SummaryChoices(Settings("brave", enabled), completion, {<<Fact>>}) :
          DeniedSearch(history, Settings("brave", enabled), completion, summary)

CuratorTurn ==
    /\ FirstRequest
    /\ \E loaded \in LoadedProfile, history \in ContinuationHistories,
          enabled \in BOOLEAN, completion \in Completions :
       \E summary \in SummaryChoices(Settings("brave", enabled), completion, SummaryTexts) :
          FreshTurn(history, Settings("brave", enabled), loaded, TRUE, <<>>,
                    completion, summary)

\* A save_memory continuation with every summary text
SaveTurn ==
    /\ FirstRequest
    /\ \E history \in ContinuationHistories,
          summary \in SeqsUpTo(SummaryAlphabet, MaxSummaryLen) :
       \E storeUp \in (IF Trivial(summary) THEN {TRUE} ELSE BOOLEAN) :
          SaveMemory(history, Settings("brave", TRUE), summary, storeUp, "ignore")

NextText == DetectorTurn \/ DetectorResumedTurn \/ CuratorTurn \/ SaveTurn

SpecText == Init /\ [][NextText]_vars

----------------------------------------------------------------------------
(* The memory store: saves of several summaries, in the same clock tick or  *)
(* in different ones, and the retrieval of what was saved.                   *)

\* The summaries a client sends back for saving; the text is stored as sent
MemorySummaries ==
    {<<Fact>>, <<Fact, Blank>>, <<Blank>>, <<PhraseHeadCapital, PhraseTailLower>>}

MemorySave ==
    \E history \in ContinuationHistories, summary \in MemorySummaries :
    \E storeUp \in (IF Trivial(summary) THEN {TRUE} ELSE BOOLEAN) :
    \E onDuplicate \in (IF storeUp /\ ~Trivial(summary)
                           /\ \E r \in collection : r.id = ToString(clock)
                        THEN {"ignore", "raise"} ELSE {"ignore"}) :
        SaveMemory(history, Settings("brave", TRUE), summary, storeUp, onDuplicate)

MemoryRecall ==
    \E loaded \in LoadedProfile, history \in ContinuationHistories,
       ranking \in Rankings(collection) :
        FreshTurn(history, Settings("brave", TRUE), loaded, TRUE, ranking,
                  <<Word>>, <<Fact>>)

NextMemory == MemorySave \/ MemoryRecall \/ Tick

SpecMemory == Init /\ [][NextMemory]_vars

----------------------------------------------------------------------------
(* The profile: updates with every name of up to MaxNameLen characters and  *)
(* reads of the profile, in any order, before the first fresh turn puts the  *)
(* stored profile into slot 0.                                               *)

ProfileNames == SeqsUpTo(ProfileAlphabet, MaxNameLen)
ProfileLists ==
    {<<>>, <<<<CharPlain>>>>, <<<<CharQuote, CharPlain, CharQuote>>, <<CharWide>>>>}
Profiles ==
    {Profile(name, key_facts, main_goals) :
        name \in ProfileNames, key_facts \in ProfileLists, main_goals \in ProfileLists}

UpdateProfileRequest ==
    /\ FirstRequest
    /\ \E profile \in Profiles, encoding \in Encodings : UpdateProfile(profile, encoding)

ProfileTurn ==
    /\ FirstRequest
    /\ \E loaded \in LoadedProfile, history \in ContinuationHistories :
          FreshTurn(history, Settings("brave", TRUE), loaded, TRUE, <<>>,
                    <<Word>>, <<Fact>>)

NextProfile == UpdateProfileRequest \/ GetProfile \/ ProfileTurn

SpecProfile == Init /\ [][NextProfile]_vars

----------------------------------------------------------------------------
(* The single-process variant: up to MaxTurns turns, in each of which the   *)
(* model asks for up to MaxRounds searches before it answers.                *)

UserInputs == {<<Word>>, <<"quit">>}

ReadInputStep ==
    \E user_input \in UserInputs :
    \E storeUp \in (IF user_input = <<"quit">> THEN {TRUE} ELSE BOOLEAN) :
    \E ranking \in (IF storeUp /\ user_input # <<"quit">>
                    THEN Rankings(collection) ELSE {<<>>}) :
        ReadInput(user_input, storeUp, ranking)

CompleteStep ==
    \E completion \in (IF cli.rounds < MaxRounds THEN CompletionOutcomes
                        ELSE {<<Word>>, Raised}) :
        Complete(completion)

AllowSearchStep == \E outcome \in {"hits", "error"} : AllowSearch(outcome)

SummarizeStep == \E summary \in SummaryOutcomes : Summarize(summary)

AllowMemoryStep ==
    \E storeUp \in BOOLEAN :
    \E onDuplicate \in (IF storeUp /\ \E r \in collection : r.id = cli.summary
                        THEN {"ignore", "raise"} ELSE {"ignore"}) :
        AllowMemory(storeUp, onDuplicate)

\* The steps of the program and of its user
CliStep ==
    \/ ReadInputStep
    \/ CompleteStep
    \/ AllowSearchStep
    \/ RefuseSearch
    \/ SummarizeStep
    \/ AllowMemoryStep
    \/ RefuseMemory

NextCli == CliStep \/ Tick

SpecCli == Init /\ [][NextCli]_vars

\* The program runs on, the language model answers and the user answers
\* every question the program asks.
SpecCliFair == SpecCli /\ WF_vars(CliStep)

----------------------------------------------------------------------------
(* Properties of the turn processor. *)

Answered == response.status # "none"
IsFreshTurn == Answered /\ request.continuation = NoContinuation
IsAction(action) == Answered /\ request.continuation.action = action
IsText(t) == t \notin {NotCalled, Raised, None}

\* The text is exactly a JSON object with tool_name "web_search" and query "X"
IsWebSearchCall(text) ==
    /\ IsText(text)
    /\ Len(text) >= 2
    /\ text[1] = LBrace
    /\ text[Len(text)] = RBrace
    /\ JsonLoads(text).ok
    /\ JsonLoads(text).tool_name = "web_search"
    /\ JsonLoads(text).query = "X"

\* The text has no brace-delimited substring, or one that is not JSON
IsNotToolText(text) ==
    /\ IsText(text)
    /\ \/ ReSearch(text) = NoMatch
       \/ ~JsonLoads(ReSearch(text)).ok

\* Every text web_search can return
SearchResultTexts ==
    UNION {{WebSearch(q, p, o) : o \in SearchOutcomes(q, p)} :
              q \in ClientQueries, p \in Providers}

Count(history, message) ==
    Cardinality({i \in 1..Len(history) : history[i] = message})

\* The response history keeps the messages of the submitted one from slot 1 on
KeepsSubmitted ==
    /\ Len(response.history) >= Len(request.history)
    /\ \A i \in 2..Len(request.history) : response.history[i] = request.history[i]

\* C1: a web search is executed, and a memory record written, only if a
\* response before the request carried the matching pending confirmation.
C1_ConfirmedBeforeExecuted ==
    /\ \A i \in 1..Len(trace.searches) :
          SearchConfirmation(trace.searches[i].query) \in asked
    /\ \A r \in trace.added :
          [text |-> r.document, type |-> "memory"] \in asked

\* C2 as stated: a completion that is the JSON object {"tool_name":
\* "web_search", "query": "X"} gives the pending confirmation {search, X} and
\* no summarization is attempted.
C2_ToolCallAlwaysConfirmed ==
    IsWebSearchCall(trace.completion) =>
        /\ response.confirmation = SearchConfirmation(<<"X">>)
        /\ trace.summary = NotCalled

\* C2 as amended: the same, for a request whose settings have web search
\* enabled.
C2_ToolCallConfirmedWhenEnabled ==
    (IsWebSearchCall(trace.completion) /\ request.settings.webSearchEnabled) =>
        /\ response.status = "ok"
        /\ response.confirmation = SearchConfirmation(<<"X">>)
        /\ trace.summary = NotCalled

C2_Witness ==
    /\ IsWebSearchCall(trace.completion)
    /\ request.settings.webSearchEnabled
    /\ response.confirmation = SearchConfirmation(<<"X">>)

\* C3 as stated: a completion without a brace-delimited substring, or with
\* one that is not JSON, yields no confirmation at all.
C3_NoConfirmationAtAll ==
    IsNotToolText(trace.completion) =>
        response.confirmation.type \notin {"search", "memory"}

\* C3 as amended: such a completion yields no search confirmation and is
\* treated as the final answer: the memory curator runs on it (and may ask
\* for a memory confirmation).
C3_NoSearchConfirmation ==
    IsNotToolText(trace.completion) =>
        /\ response.status = "ok"
        /\ response.confirmation.type # "search"
        /\ trace.summary # NotCalled

C3_Witness ==
    /\ IsNotToolText(trace.completion)
    /\ request.settings.webSearchEnabled
    /\ ReSearch(trace.completion) # NoMatch
    /\ Contains(trace.completion, <<PairToolWebSearch>>)
    /\ response.confirmation.type = "memory"

\* C4: an approved_search request appends to the submitted history exactly
\* one tool/user message, which contains the text the search returned for
\* the query of the request, and the model's message comes after it.
C4_ApprovedSearchAppendsResults ==
    IsAction("approved_search") =>
        LET h == request.history
            r == response.history
        IN /\ response.status = "ok"
           /\ Len(r) >= Len(h) + 2
           /\ SubSeq(r, 1, Len(h)) = h
           /\ Len(trace.searches) = 1
           /\ trace.searches[1].query = request.continuation.query
           /\ r[Len(h) + 1].role \in {"tool", "user"}
           /\ Contains(r[Len(h) + 1].content, trace.searches[1].results)
           /\ \A i \in (Len(h) + 2)..Len(r) : r[i].role = "assistant"
           /\ IsText(trace.completion) =>
                 r[Len(h) + 2] = Message("assistant", trace.completion)

C4_Witness ==
    /\ IsAction("approved_search")
    /\ request.continuation.query = <<"X">>
    /\ trace.searches[1].results = <<"snippet about ", "X">>
    /\ IsText(trace.completion)
    /\ Len(response.history) = Len(request.history) + 2

\* C5: a denied_search request appends a message that tells the model the
\* search was refused and holds no search results, calls no search, and
\* calls the model again.
C5_DeniedSearchAppendsDenial ==
    IsAction("denied_search") =>
        LET h == request.history
            r == response.history
        IN /\ response.status = "ok"
           /\ Len(r) >= Len(h) + 2
           /\ SubSeq(r, 1, Len(h)) = h
           /\ Contains(r[Len(h) + 1].content, <<DenialText>>)
           /\ \A results \in SearchResultTexts :
                 ~Contains(r[Len(h) + 1].content, results)
           /\ trace.searches = <<>>
           /\ trace.completion # NotCalled
           /\ r[Len(h) + 2].role = "assistant"

C5_Witness ==
    /\ IsAction("denied_search")
    /\ IsText(trace.completion)
    /\ response.history[Len(request.history) + 1] = Message("user", <<DenialText>>)

\* C6: a summary that contains "no new key information" in any letter case
\* never gives a pending memory confirmation.
C6_NoNewKeyInformationDiscarded ==
    (IsText(trace.summary) /\ Contains(Lower(trace.summary), NoNewKeyInformation)) =>
        response.confirmation.type # "memory"

C6_Witness ==
    /\ IsText(trace.summary)
    /\ Contains(Lower(trace.summary), NoNewKeyInformation)
    /\ ~Contains(trace.summary, NoNewKeyInformation)
    /\ response.status = "ok"
    /\ response.confirmation = NullConfirmation

\* C7: a fresh turn (with the memory store available) appends exactly one
\* assistant message to the submitted history and returns at most one pending
\* confirmation.
C7_FreshTurnAppendsOne ==
    (IsFreshTurn /\ request.history # <<>> /\ trace.store = "up") =>
        /\ response.status = "ok"
        /\ Len(response.history) = Len(request.history) + 1
        /\ response.history[Len(response.history)].role = "assistant"
        /\ KeepsSubmitted

\* C8: when the summarization call fails the turn completes normally: the
\* returned history ends with the model's answer and holds no error message.
C8_SummaryFailureSkipped ==
    trace.summary = Raised =>
        /\ response.status = "ok"
        /\ response.history[Len(response.history)]
              = Message("assistant", trace.completion)
        /\ Count(response.history, Apology) = Count(request.history, Apology)

\* C9: when the memory store is unavailable on a fresh turn, the memory
\* block is empty and the turn goes on to the model call.
C9_StoreFailureDegrades ==
    (IsFreshTurn /\ trace.store = "down") =>
        /\ response.status = "ok"
        /\ trace.completion # NotCalled

\* C10: when the completion call fails, no fault leaves the handler: the
\* response is the history with one apologetic assistant message appended,
\* and no pending confirmation.
C10_CompletionFailureApologizes ==
    trace.completion = Raised =>
        LET extra == IF request.continuation.action
                            \in {"approved_search", "denied_search"} THEN 1 ELSE 0
            r == response.history
        IN /\ response.status = "ok"
           /\ response.confirmation.type \notin {"search", "memory"}
           /\ Len(r) = Len(request.history) + extra + 1
           /\ r[Len(r)] = Apology
           /\ Count(r, Apology) = Count(request.history, Apology) + 1
           /\ KeepsSubmitted

C10_Witness ==
    /\ IsFreshTurn
    /\ trace.completion = Raised
    /\ response.history[Len(response.history)] = Apology

\* C11: when the memory store holds no records, a fresh turn calls neither
\* the embedding service nor the store's query, and the memory section of the
\* context it assembles is empty: slot 0 ends with the time context and holds
\* neither the PAST MEMORIES header nor its footer.
C11_EmptyStoreNoRetrieval ==
    (IsFreshTurn /\ collection = {}) =>
        /\ trace.encoded = 0
        /\ ~trace.queried
        /\ response.status = "ok" =>
              LET context == response.history[1].content
              IN /\ \E now \in 0..clock : context = AssembledContext(DefaultProfile, now, <<>>)
                 /\ ~Contains(context, <<"--- PAST MEMORIES ---\n">>)
                 /\ ~Contains(context, <<"\n--- END MEMORIES ---">>)

C11_Witness ==
    /\ IsFreshTurn
    /\ collection = {}
    /\ response.status = "ok"
    /\ trace.store = "up"
    /\ trace.encoded = 0
    /\ response.history[1].content = AssembledContext(DefaultProfile, clock, <<>>)

\* C12: a save_memory request never modifies or removes a record the store
\* already holds: every id/text pair present before it is present after it.
C12_SaveKeepsRecords ==
    [][request'.continuation.action = "save_memory"
          => \A r \in collection : r \in collection']_vars

\* a save that added a record to a store that already held another one
C12_Witness ==
    /\ IsAction("save_memory")
    /\ trace.added # {}
    /\ collection \ trace.added # {}

\* C13: every approved save of a non-trivial summary that reaches the store
\* is kept under an identifier of its own: it adds one record, whose id no
\* other record carries, also when another save was made in the same clock
\* tick.
C13_OneRecordPerSave ==
    (/\ IsAction("save_memory")
     /\ request.continuation.summary # None
     /\ ~Trivial(request.continuation.summary)
     /\ trace.store = "up") =>
        /\ Cardinality(trace.added) = 1
        /\ \A new \in trace.added : \A r \in collection : r.id = new.id => r = new

C15_SearchIffApproved ==
    Answered =>
        /\ trace.searches # <<>> <=> IsAction("approved_search")
        /\ Len(trace.searches) <= 1

\* a fresh turn whose completion is a web_search tool call, and no search made
C15_Witness ==
    /\ IsFreshTurn
    /\ trace.completion = ToolCallX
    /\ response.confirmation = SearchConfirmation(<<"X">>)
    /\ trace.searches = <<>>

\* C16: the memory store is changed only by a request that carries the
\* save_memory continuation: fresh turns, with their memory retrieval, and
\* approved_search, denied_search and dont_save_memory requests leave the set
\* of memory records as it is.
C16_OnlySaveChangesStore ==
    [][collection' # collection
          => request'.continuation.action = "save_memory"]_vars

\* a fresh turn that queried a store holding records, and left them there
C16_Witness ==
    /\ IsFreshTurn
    /\ trace.queried
    /\ collection # {}
    /\ response.status = "ok"

\* C17: on a fresh turn that reaches the model, the assembled context
\* replaces the content of slot 0 and is not appended: the new content is
\* made of the persona, the stored profile, the time and the retrieved
\* memories only, every message at index 1 and above is as submitted, and the
\* returned history is exactly one message longer than the submitted one.
C17_SlotZeroReplaced ==
    (IsFreshTurn /\ request.history # <<>> /\ trace.store = "up") =>
        LET h == request.history
            r == response.history
        IN /\ response.status = "ok"
           /\ Len(r) = Len(h) + 1
           /\ r[1].role = h[1].role
           /\ \E now \in 0..clock, ranking \in Rankings(collection) :
                 r[1].content =
                     AssembledContext(JsonLoadsProfile(profileFile).value, now,
                                      GetRelevantMemories(collection, ranking))
           /\ \A i \in 2..Len(h) : r[i] = h[i]

\* The text is exactly a JSON object whose tool_name is present and is not
\* "web_search"
IsOtherToolCall(text) ==
    /\ IsText(text)
    /\ Len(text) >= 2
    /\ text[1] = LBrace
    /\ text[Len(text)] = RBrace
    /\ JsonLoads(text).ok
    /\ JsonLoads(text).tool_name \notin {"", "web_search"}

\* C19: a completion that parses as a JSON object whose tool_name is present
\* but is not "web_search" causes no search confirmation and no search; it is
\* handled like a final answer: it is appended as the assistant message and
\* the Memory Curator runs on it and decides the confirmation.
C19_OtherToolIsFinalAnswer ==
    (Answered /\ IsOtherToolCall(trace.completion)) =>
        /\ response.status = "ok"
        /\ response.confirmation.type # "search"
        /\ trace.searches = <<>>
        /\ response.history[Len(response.history)]
              = Message("assistant", trace.completion)
        /\ IsText(trace.summary)
        /\ response.confirmation = MemoryConfirmation(trace.summary)

C19_Witness ==
    /\ IsFreshTurn
    /\ request.settings.webSearchEnabled
    /\ trace.completion = <<LBrace, PairToolOther, Comma, PairQueryX, RBrace>>
    /\ response.confirmation = MemoryConfirmation(<<Fact>>)

\* C20: in the single-process variant, at the start of every turn, after any
\* number of completed turns with approved or denied searches and saved or
\* unsaved memories, slot 0 holds the original system prompt, without time
\* or memory context.
C20_SystemPromptRestored ==
    cli.pc = "Input" =>
        /\ cli.history[1] = Message("system", <<SystemPrompt>>)
        /\ cli.original_system_prompt = <<SystemPrompt>>

\* the start of a turn after MaxTurns completed turns with an allowed search,
\* a refused one and a saved memory
C20_Witness ==
    /\ cli.pc = "Input"
    /\ cli.turns = MaxTurns
    /\ collection # {}
    /\ \E i \in 1..Len(cli.history) : cli.history[i] = CliDenial
    /\ \E i \in 1..Len(cli.history) :
          cli.history[i] = CliToolFeedback(CliWebSearch(<<"X">>, "hits"))

\* C18: when the language model answers and the user answers every pending
\* confirmation, every turn that awaits the model eventually reaches Final;
\* after the user's answer to a search confirmation the program awaits the
\* model again, and the model is invoked exactly once before the next
\* decision (a further confirmation, or Final).
C18_TurnReachesFinal ==
    /\ (cli.pc = "AwaitingModel")
          ~> (cli.pc = "Final" \/ (cli.pc = "Crashed" /\ cli.cause = "model"))
    /\ [](cli.pc \in {"AwaitingUserApproval", "Final"} => cli.invoked = 1)

\* C21: a request that carries the continuation save_memory or
\* dont_save_memory (the former with the text of a summary) returns the
\* submitted history unchanged, with no pending confirmation, and calls the
\* language model neither for a completion nor for a summarization.
C21_MemoryAnswerReturnsHistory ==
    (\/ IsAction("save_memory") /\ request.continuation.summary # None
     \/ IsAction("dont_save_memory")) =>
        /\ response = Ok(request.history, AbsentConfirmation)
        /\ trace.completion = NotCalled
        /\ trace.summary = NotCalled

\* C22: when the settings of the request have webSearchEnabled false, the
\* response carries no search confirmation, whatever the completion holds:
\* the completion is appended as the final answer and the Memory Curator is
\* called on it.
C22_DisabledNeverConfirmsSearch ==
    (Answered /\ ~request.settings.webSearchEnabled /\ IsText(trace.completion)) =>
        /\ response.status = "ok"
        /\ response.confirmation.type # "search"
        /\ trace.summary # NotCalled
        /\ \E i \in 1..Len(response.history) :
              response.history[i] = Message("assistant", trace.completion)
        /\ IsText(trace.summary) =>
              /\ response.confirmation = MemoryConfirmation(trace.summary)
              /\ response.history[Len(response.history)]
                    = Message("assistant", trace.completion)

\* a web_search tool call answered with web search disabled
C22_Witness ==
    /\ Answered
    /\ ~request.settings.webSearchEnabled
    /\ IsWebSearchCall(trace.completion)
    /\ response.confirmation = MemoryConfirmation(<<Fact>>)

\* The text is empty or made of white space only
IsBlank(text) == \A i \in 1..Len(text) : text[i] = Blank

\* The text holds "no new key information" in some letter case
HasPhraseInAnyCase(text) ==
    \E i \in 1..(Len(text) - 1) :
        /\ text[i] \in {PhraseHeadLower, PhraseHeadCapital}
        /\ text[i + 1] \in {PhraseTailLower, PhraseTailUpper}

\* C23: a save_memory continuation whose summary is blank after trimming, or
\* holds "no new key information" in any letter case, stores nothing: the
\* store is as before, no embedding is computed, and the submitted history
\* comes back.
C23_TrivialSummaryNotStored ==
    (/\ IsAction("save_memory")
     /\ request.continuation.summary # None
     /\ \/ IsBlank(request.continuation.summary)
        \/ HasPhraseInAnyCase(request.continuation.summary)) =>
        /\ trace.added = {}
        /\ trace.encoded = 0
        /\ request.continuation.summary \notin Documents(collection)
        /\ response = Ok(request.history, AbsentConfirmation)

\* a save of the phrase in capitals that stored nothing
C23_Witness ==
    /\ IsAction("save_memory")
    /\ request.continuation.summary = <<PhraseHeadCapital, PhraseTailUpper>>
    /\ collection = {}
    /\ response.status = "ok"

====
